---- MODULE Spec2Model ----
(***************************************************************************)
(* Obscura MPC confidential-transfer circuits (arcis/src/lib.rs).          *)
(*                                                                         *)
(* The four #[instruction] entry points of `mod circuits` are modelled as  *)
(* atomic actions of an invocation machine: a caller hands a slot an       *)
(* Enc<Shared, T> argument, the circuit runs (to_arcis, the computation,   *)
(* reveal) and the revealed value is what the caller can see.              *)
(*                                                                         *)
(* u64 values keep their width: a u64 is a tuple of NumLimbs limbs of      *)
(* LimbBits bits, most significant limb first.                             *)
(***************************************************************************)
EXTENDS Integers, Sequences, FiniteSets, TLC

\* ------------------------------------------------------------------ bounds

\* Number of invocations that can be in flight at once (Spec).
NumSlots == 2

\* Number of sample u64 operands the concurrent machine draws from (Spec).
NumConcValues == 2

\* Number of sample u64 operands the single-invocation machine draws from
\* (SpecFn).
NumValues == 8

\* --------------------------------------------------------------------- u64

\* u64 = NumLimbs limbs of LimbBits bits each.
LimbBits == 16

NumLimbs == 4

LimbMod == 2 ^ LimbBits

U64 == [1..NumLimbs -> 0..(LimbMod - 1)]

\* The literal 0 of `data.amount > 0`.
Zero == <<0, 0, 0, 0>>

\* The literal 0xDEADBEEF_CAFEBABE.
MASK == <<57005, 48879, 51966, 47806>>

\* The same literal cut to 32 bits (0xCAFEBABE).
MASK_truncated == <<0, 0, 51966, 47806>>

\* Sample operands: 0, 42, 2^64-1, 100, 150, 2^32, 1, the mask itself, 2^63.
U64Samples ==
  << <<0, 0, 0, 0>>,
     <<0, 0, 0, 42>>,
     <<65535, 65535, 65535, 65535>>,
     <<0, 0, 0, 100>>,
     <<0, 0, 0, 150>>,
     <<0, 1, 0, 0>>,
     <<0, 0, 0, 1>>,
     <<57005, 48879, 51966, 47806>>,
     <<32768, 0, 0, 0>> >>

FirstSamples(n) ==
  {U64Samples[k] : k \in 1..(IF n < Len(U64Samples) THEN n ELSE Len(U64Samples))}

Values == FirstSamples(NumValues)

ConcValues == FirstSamples(NumConcValues)

\* XOR of two limbs, bit by bit.
RECURSIVE BitXor(_, _, _)
BitXor(a, b, n) ==
  IF n = 0 THEN 0
  ELSE (((a % 2) + (b % 2)) % 2) + 2 * BitXor(a \div 2, b \div 2, n - 1)

\* a ^ b on u64.
u64_xor(a, b) == [k \in 1..NumLimbs |-> BitXor(a[k], b[k], LimbBits)]

\* Three-way comparison from the most significant limb down: -1, 0 or 1.
RECURSIVE u64_cmp(_, _, _)
u64_cmp(a, b, k) ==
  IF k > NumLimbs THEN 0
  ELSE IF a[k] < b[k] THEN -1
  ELSE IF a[k] > b[k] THEN 1
  ELSE u64_cmp(a, b, k + 1)

\* a > b on u64.
u64_gt(a, b) == u64_cmp(a, b, 1) = 1

\* a >= b on u64.
u64_ge(a, b) == u64_cmp(a, b, 1) # -1

\* a == b on u64.
u64_eq(a, b) == u64_cmp(a, b, 1) = 0

\* ------------------------------------------------------------------- state

Slots == 1..NumSlots

Circuits ==
  {"validate_transfer", "compute_transfer_commitment",
   "check_sufficient_balance", "compare_hidden_values"}

VARIABLES
  pc,       \* pc[i]: "idle", "pending" (argument supplied) or "done" (revealed)
  circuit,  \* circuit[i]: the instruction slot i was invoked with, or "none"
  enc,      \* enc[i]: the Enc<Shared, T> argument of the invocation
  public    \* public[i]: what has crossed the privacy boundary, in order

vars == <<pc, circuit, enc, public>>

\* pub struct TransferAmount { amount, min_balance }
TransferAmount(S) == [amount : S, min_balance : S]

\* pub struct BalanceCheck { balance, amount }
BalanceCheck(S) == [balance : S, amount : S]

\* pub struct HiddenComparison { value_a, value_b }
HiddenComparison(S) == [value_a : S, value_b : S]

\* The argument type of each instruction.
ArgType(c, S) ==
  CASE c = "validate_transfer" -> TransferAmount(S)
    [] c = "compute_transfer_commitment" -> TransferAmount(S)
    [] c = "check_sufficient_balance" -> BalanceCheck(S)
    [] c = "compare_hidden_values" -> HiddenComparison(S)

\* Enc<Shared, T>: the plaintext struct held under the shared owner.
Enc(data) == [owner |-> "Shared", data |-> data]

NoArg == [owner |-> "none"]

Init ==
  /\ pc = [i \in Slots |-> "idle"]
  /\ circuit = [i \in Slots |-> "none"]
  /\ enc = [i \in Slots |-> NoArg]
  /\ public = [i \in Slots |-> <<>>]

\* --------------------------------------------------------- the computations

\* transfer.to_arcis(): the struct of invocation i inside the MPC context.
\* Faulty variant: every invocation of an instruction reads one shared buffer,
\* the argument of the lowest in-flight slot running that instruction.
to_arcis_shared(i) ==
  LET same == {j \in Slots : pc[j] # "idle" /\ circuit[j] = circuit[i]}
  IN  enc[CHOOSE j \in same : \A k \in same : j <= k].data

to_arcis(i) == enc[i].data

\* Faulty variant: min_balance > amount instead of >=.
is_valid_strict(data) ==
  u64_gt(data.amount, Zero) /\ u64_gt(data.min_balance, data.amount)

\* let is_valid = (data.amount > 0) && (data.min_balance >= data.amount);
is_valid(data) ==
  u64_gt(data.amount, Zero) /\ u64_ge(data.min_balance, data.amount)

\* Faulty variant: the mask literal cut to 32 bits.
commitment_truncated(data) == u64_xor(data.amount, MASK_truncated)

\* Faulty variant: the commitment is salted with the number of results
\* revealed so far.
commitment_salted(data) ==
  u64_xor(u64_xor(data.amount, MASK),
          <<0, 0, 0, Cardinality({j \in Slots : pc[j] = "done"})>>)

\* let commitment = data.amount ^ 0xDEADBEEF_CAFEBABE;
commitment(data) == u64_xor(data.amount, MASK)

\* Faulty variant: balance > amount instead of >=.
sufficient_strict(data) == u64_gt(data.balance, data.amount)

\* let sufficient = data.balance >= data.amount;
sufficient(data) == u64_ge(data.balance, data.amount)

\* Faulty variant: the codes of the two strict outcomes exchanged.
result_swapped(data) ==
  IF u64_eq(data.value_a, data.value_b) THEN 0
  ELSE IF u64_gt(data.value_a, data.value_b) THEN 2
  ELSE 1

\* Faulty variant: the else branch lost, every unequal pair reports 1.
result_no_else(data) ==
  IF u64_eq(data.value_a, data.value_b) THEN 0 ELSE 1

\* let result = if a == b { 0u8 } else if a > b { 1u8 } else { 2u8 };
result(data) ==
  IF u64_eq(data.value_a, data.value_b) THEN 0
  ELSE IF u64_gt(data.value_a, data.value_b) THEN 1
  ELSE 2

\* x.reveal(): the value of the local `source` crosses the privacy boundary.
reveal(pub, source, value) == Append(pub, [source |-> source, value |-> value])

\* ----------------------------------------------------------------- actions

\* The caller supplies an Enc<Shared, T> argument for instruction c.
Invoke(i, S) ==
  /\ pc[i] = "idle"
  /\ \E c \in Circuits :
       \E data \in ArgType(c, S) :
         /\ circuit' = [circuit EXCEPT ![i] = c]
         /\ enc' = [enc EXCEPT ![i] = Enc(data)]
  /\ pc' = [pc EXCEPT ![i] = "pending"]
  /\ UNCHANGED public

\* Faulty variant: the two sub-comparisons are revealed as well.
validate_transfer_leaky(i) ==
  /\ pc[i] = "pending"
  /\ circuit[i] = "validate_transfer"
  /\ LET data == to_arcis(i)
     IN  public' = [public EXCEPT ![i] =
           reveal(reveal(reveal(@, "data.amount > 0", u64_gt(data.amount, Zero)),
                         "data.min_balance >= data.amount",
                         u64_ge(data.min_balance, data.amount)),
                  "is_valid", is_valid(data))]
  /\ pc' = [pc EXCEPT ![i] = "done"]
  /\ UNCHANGED <<circuit, enc>>

\* Faulty variant: a zero amount is rejected instead of answered with false.
validate_transfer_rejecting(i) ==
  /\ pc[i] = "pending"
  /\ circuit[i] = "validate_transfer"
  /\ LET data == to_arcis(i)
     IN  /\ u64_gt(data.amount, Zero)
         /\ public' = [public EXCEPT ![i] = reveal(@, "is_valid", is_valid(data))]
  /\ pc' = [pc EXCEPT ![i] = "done"]
  /\ UNCHANGED <<circuit, enc>>

validate_transfer(i) ==
  /\ pc[i] = "pending"
  /\ circuit[i] = "validate_transfer"
  /\ LET data == to_arcis(i)
     IN  public' = [public EXCEPT ![i] = reveal(@, "is_valid", is_valid(data))]
  /\ pc' = [pc EXCEPT ![i] = "done"]
  /\ UNCHANGED <<circuit, enc>>

compute_transfer_commitment(i) ==
  /\ pc[i] = "pending"
  /\ circuit[i] = "compute_transfer_commitment"
  /\ LET data == to_arcis(i)
     IN  public' = [public EXCEPT ![i] = reveal(@, "commitment", commitment(data))]
  /\ pc' = [pc EXCEPT ![i] = "done"]
  /\ UNCHANGED <<circuit, enc>>

check_sufficient_balance(i) ==
  /\ pc[i] = "pending"
  /\ circuit[i] = "check_sufficient_balance"
  /\ LET data == to_arcis(i)
     IN  public' = [public EXCEPT ![i] = reveal(@, "sufficient", sufficient(data))]
  /\ pc' = [pc EXCEPT ![i] = "done"]
  /\ UNCHANGED <<circuit, enc>>

compare_hidden_values(i) ==
  /\ pc[i] = "pending"
  /\ circuit[i] = "compare_hidden_values"
  /\ LET data == to_arcis(i)
     IN  public' = [public EXCEPT ![i] = reveal(@, "result", result(data))]
  /\ pc' = [pc EXCEPT ![i] = "done"]
  /\ UNCHANGED <<circuit, enc>>

\* The caller takes the revealed result; the invocation's values are discarded.
Collect(i) ==
  /\ pc[i] = "done"
  /\ pc' = [pc EXCEPT ![i] = "idle"]
  /\ circuit' = [circuit EXCEPT ![i] = "none"]
  /\ enc' = [enc EXCEPT ![i] = NoArg]
  /\ public' = [public EXCEPT ![i] = <<>>]

\* One run of whichever instruction slot i was invoked with.
Run(i) ==
  \/ validate_transfer(i)
  \/ compute_transfer_commitment(i)
  \/ check_sufficient_balance(i)
  \/ compare_hidden_values(i)

\* Any number of invocations in flight, run in any order.
Next ==
  \E i \in Slots :
    \/ Invoke(i, ConcValues)
    \/ Run(i)
    \/ Collect(i)

Spec == Init /\ [][Next]_vars

\* One invocation at a time, over the larger operand set.
NextFn ==
  \/ Invoke(1, Values)
  \/ Run(1)
  \/ Collect(1)

SpecFn == Init /\ [][NextFn]_vars

\* ------------------------------------------------------- reading the state

\* Invocation i ran instruction c and its result has been revealed.
Done(i, c) == pc[i] = "done" /\ circuit[i] = c

\* The struct invocation i was called with.
Arg(i) == enc[i].data

\* The value invocation i revealed.
Out(i) == public[i][1].value

\* a < b on u64, stated positionally: the first limb that differs decides.
U64Less(a, b) ==
  \E k \in 1..NumLimbs :
    /\ a[k] < b[k]
    /\ \A j \in 1..(k - 1) : a[j] = b[j]

\* Bit p (0 = least significant) of a u64.
BitAt(v, p) == (v[NumLimbs - (p \div LimbBits)] \div (2 ^ (p % LimbBits))) % 2

BitPositions == 0..(NumLimbs * LimbBits - 1)

\* ---------------------------------------------------------------------- C1

\* C1: validate_transfer reveals true when amount > 0 and min_balance >= amount,
\* and false for every other pair (amount = 0, or min_balance < amount).
C1_ValidateTransfer ==
  \A i \in Slots :
    Done(i, "validate_transfer") =>
      /\ Out(i) \in BOOLEAN
      /\ Out(i) = (/\ U64Less(Zero, Arg(i).amount)
                   /\ ~U64Less(Arg(i).min_balance, Arg(i).amount))

\* validate_transfer({amount: 100, min_balance: 150}) has revealed true.
C1_Witness ==
  \E i \in Slots :
    /\ Done(i, "validate_transfer")
    /\ Arg(i) = [amount |-> <<0, 0, 0, 100>>, min_balance |-> <<0, 0, 0, 150>>]
    /\ Out(i) = TRUE

\* ---------------------------------------------------------------------- C2

Checks == {"eq", "gt", "lt"}

Test(t, a, b) ==
  CASE t = "eq" -> a = b
    [] t = "gt" -> U64Less(b, a)
    [] t = "lt" -> U64Less(a, b)

Code(t) == CASE t = "eq" -> 0 [] t = "gt" -> 1 [] t = "lt" -> 2

\* Every order in which the three checks can be chained.
CheckOrders == {o \in [1..3 -> Checks] : \A m, n \in 1..3 : o[m] = o[n] => m = n}

\* if o[1] { .. } else if o[2] { .. } else { .. }
Chain(o, a, b) ==
  IF Test(o[1], a, b) THEN Code(o[1])
  ELSE IF Test(o[2], a, b) THEN Code(o[2])
  ELSE Code(o[3])

\* C2: compare_hidden_values reveals exactly one code of {0,1,2}: 0 iff
\* value_a = value_b, 1 iff value_a > value_b, 2 iff value_a < value_b; and any
\* order of the three checks gives the code the equality-first order gives.
C2_CompareHiddenValues ==
  \A i \in Slots :
    Done(i, "compare_hidden_values") =>
      LET a == Arg(i).value_a
          b == Arg(i).value_b
      IN  /\ Out(i) \in {0, 1, 2}
          /\ (Out(i) = 0) = (a = b)
          /\ (Out(i) = 1) = U64Less(b, a)
          /\ (Out(i) = 2) = U64Less(a, b)
          /\ \A o \in CheckOrders : Chain(o, a, b) = Out(i)

\* compare_hidden_values({value_a: 2^32, value_b: 150}) has revealed 1: the
\* operands differ in a limb above the low 32 bits.
C2_Witness ==
  \E i \in Slots :
    /\ Done(i, "compare_hidden_values")
    /\ Arg(i) = [value_a |-> <<0, 1, 0, 0>>, value_b |-> <<0, 0, 0, 150>>]
    /\ Out(i) = 1

\* ---------------------------------------------------------------------- C4

\* C4: check_sufficient_balance reveals true when balance >= amount (balance =
\* amount and amount = 0 included) and false otherwise.
C4_CheckSufficientBalance ==
  \A i \in Slots :
    Done(i, "check_sufficient_balance") =>
      /\ Out(i) \in BOOLEAN
      /\ Out(i) = ~U64Less(Arg(i).balance, Arg(i).amount)

\* check_sufficient_balance with balance = amount > 0 has revealed true.
C4_Witness ==
  \E i \in Slots :
    /\ Done(i, "check_sufficient_balance")
    /\ Arg(i).balance = Arg(i).amount
    /\ Arg(i).amount # Zero
    /\ Out(i) = TRUE

\* ---------------------------------------------------------------------- C3

\* C3: compute_transfer_commitment reveals amount XOR 0xDEADBEEF_CAFEBABE as a
\* 64-bit value (each bit of the result is the bit of amount, flipped where the
\* mask has a 1), and two invocations with the same amount reveal the same
\* commitment whatever their min_balance.
C3_Commitment ==
  /\ \A i \in Slots :
       Done(i, "compute_transfer_commitment") =>
         /\ Out(i) \in U64
         /\ \A p \in BitPositions :
              BitAt(Out(i), p) = (BitAt(Arg(i).amount, p) + BitAt(MASK, p)) % 2
  /\ \A i, j \in Slots :
       /\ Done(i, "compute_transfer_commitment")
       /\ Done(j, "compute_transfer_commitment")
       /\ Arg(i).amount = Arg(j).amount
       => Out(i) = Out(j)

\* Two invocations with amount 42 and different min_balance have both revealed
\* 42 XOR 0xDEADBEEF_CAFEBABE = 0xDEADBEEF_CAFEBA94.
C3_Witness ==
  \E i, j \in Slots :
    /\ Done(i, "compute_transfer_commitment")
    /\ Done(j, "compute_transfer_commitment")
    /\ Arg(i).amount = <<0, 0, 0, 42>>
    /\ Arg(j).amount = <<0, 0, 0, 42>>
    /\ Arg(i).min_balance # Arg(j).min_balance
    /\ Out(i) = <<57005, 48879, 51966, 47764>>
    /\ Out(j) = <<57005, 48879, 51966, 47764>>

\* ---------------------------------------------------------------------- C5

\* C5: the revealed commitment does not disclose the amount: an observer of the
\* revealed outputs cannot tell apart two compute_transfer_commitment
\* invocations, whatever their amounts.
C5_CommitmentHidesAmount ==
  \A i, j \in Slots :
    /\ Done(i, "compute_transfer_commitment")
    /\ Done(j, "compute_transfer_commitment")
    => Out(i) = Out(j)

\* ---------------------------------------------------------------------- C6

\* The local each instruction passes to reveal.
FinalLocal(c) ==
  CASE c = "validate_transfer" -> "is_valid"
    [] c = "compute_transfer_commitment" -> "commitment"
    [] c = "check_sufficient_balance" -> "sufficient"
    [] c = "compare_hidden_values" -> "result"

\* C6: the only value that crosses the privacy boundary in an invocation is its
\* final result: nothing is public before the computation has run, and once it
\* has, exactly one value is public and it is the instruction's final local
\* (no input field, no sub-comparison).
C6_OnlyResultRevealed ==
  \A i \in Slots :
    /\ pc[i] # "done" => public[i] = <<>>
    /\ pc[i] = "done" =>
         /\ Len(public[i]) = 1
         /\ public[i][1].source = FinalLocal(circuit[i])

\* validate_transfer has run on an argument whose two sub-comparisons differ
\* (amount > 0 holds, min_balance >= amount does not) and one value is public.
C6_Witness ==
  \E i \in Slots :
    /\ Done(i, "validate_transfer")
    /\ U64Less(Zero, Arg(i).amount)
    /\ U64Less(Arg(i).min_balance, Arg(i).amount)
    /\ public[i] = <<[source |-> "is_valid", value |-> FALSE]>>

\* ---------------------------------------------------------------------- C7

\* C7: idempotence: whatever was invoked before, two invocations of the same
\* instruction with the same argument have revealed the same output.
C7_Idempotent ==
  \A i, j \in Slots :
    /\ pc[i] = "done"
    /\ pc[j] = "done"
    /\ circuit[i] = circuit[j]
    /\ enc[i] = enc[j]
    => public[i] = public[j]

\* Two invocations of compute_transfer_commitment with one and the same
\* argument have both revealed their result.
C7_Witness ==
  \E i, j \in Slots :
    /\ i # j
    /\ Done(i, "compute_transfer_commitment")
    /\ Done(j, "compute_transfer_commitment")
    /\ enc[i] = enc[j]
    /\ Out(i) = Out(j)

\* ---------------------------------------------------------------------- C8

\* What instruction c reveals on argument data when nothing else is running.
Alone(c, data) ==
  CASE c = "validate_transfer" -> is_valid(data)
    [] c = "compute_transfer_commitment" -> commitment(data)
    [] c = "check_sufficient_balance" -> sufficient(data)
    [] c = "compare_hidden_values" -> result(data)

\* C8: under every interleaving of concurrent invocations, each invocation has
\* revealed what it would reveal run alone on its own argument.
C8_Independent ==
  \A i \in Slots :
    pc[i] = "done" => Out(i) = Alone(circuit[i], Arg(i))

\* Two overlapping invocations of one instruction with different arguments have
\* revealed different results.
C8_Witness ==
  \E i, j \in Slots :
    /\ i # j
    /\ pc[i] = "done"
    /\ pc[j] = "done"
    /\ circuit[i] = circuit[j]
    /\ enc[i] # enc[j]
    /\ Out(i) # Out(j)

\* ---------------------------------------------------------------------- C9

\* The output type of each instruction: bool, u64, bool, u8 in {0,1,2}.
OutType(c) ==
  CASE c = "validate_transfer" -> BOOLEAN
    [] c = "compute_transfer_commitment" -> U64
    [] c = "check_sufficient_balance" -> BOOLEAN
    [] c = "compare_hidden_values" -> {0, 1, 2}

\* C9: every instruction is total: an invocation that has its argument can
\* always run, one step takes it to its result, and the result is one value of
\* the instruction's output type; no invocation is stuck and none fails.
C9_Total ==
  \A i \in Slots :
    /\ pc[i] = "pending" => ENABLED (Run(i) /\ pc'[i] = "done")
    /\ pc[i] = "done" =>
         /\ Len(public[i]) = 1
         /\ Out(i) \in OutType(circuit[i])

\* validate_transfer on amount = 0 has completed and revealed false.
C9_Witness ==
  \E i \in Slots :
    /\ Done(i, "validate_transfer")
    /\ Arg(i).amount = Zero
    /\ Out(i) = FALSE

\* --------------------------------------------------------------------- C10

Mirror(code) == CASE code = 0 -> 0 [] code = 1 -> 2 [] code = 2 -> 1

\* C10: compare_hidden_values is mirror-symmetric under swapping its operands
\* (0 stays 0, 1 and 2 exchange), and check_sufficient_balance on (x, y) is
\* true exactly when compare_hidden_values on (x, y) is 0 or 1.
C10_MirrorAndAgreement ==
  \A i, j \in Slots :
    /\ ( /\ Done(i, "compare_hidden_values")
         /\ Done(j, "compare_hidden_values")
         /\ Arg(j).value_a = Arg(i).value_b
         /\ Arg(j).value_b = Arg(i).value_a
         => Out(j) = Mirror(Out(i)) )
    /\ ( /\ Done(i, "compare_hidden_values")
         /\ Done(j, "check_sufficient_balance")
         /\ Arg(j).balance = Arg(i).value_a
         /\ Arg(j).amount = Arg(i).value_b
         => (Out(j) = TRUE) = (Out(i) \in {0, 1}) )

\* compare_hidden_values has revealed 1 on (x, y) and 2 on (y, x).
C10_Witness ==
  \E i, j \in Slots :
    /\ Done(i, "compare_hidden_values")
    /\ Done(j, "compare_hidden_values")
    /\ Arg(j).value_a = Arg(i).value_b
    /\ Arg(j).value_b = Arg(i).value_a
    /\ Out(i) = 1
    /\ Out(j) = 2

====
